---- MODULE Spec2Model ----
(***************************************************************************)
(* A model of src/PollReader.py: the PollReader class that reads a CSV of  *)
(* election polls into six parallel columns (build_data_dict) and answers  *)
(* three aggregate queries over them.                                      *)
(*                                                                         *)
(* Text is modelled as TLA+ strings, character by character: strip, split, *)
(* lower, upper, isdigit, isalpha, int() and float() are computed on the   *)
(* characters of each line.  A float is modelled as an exact fixed-point   *)
(* number of two limbs, [hi, lo], standing for hi * 10^-4 + lo * 10^-13    *)
(* with 0 <= lo < 10^9, so that the 1e-12 tolerance of                     *)
(* highest_polling_candidate is 10 units of the low limb.  An average is   *)
(* an exact fraction [num, den] of such a number and a count.              *)
(***************************************************************************)
EXTENDS Integers, Sequences, FiniteSets, TLC

VARIABLES raw_data, data_dict, status, exc, calls, first, last

vars == <<raw_data, data_dict, status, exc, calls, first, last>>

(***************************************************************************)
(* Bounds of the model.                                                    *)
(***************************************************************************)
\* The longest file whose lines are drawn freely from LineSet.
MaxLines == 2
\* The number of build_data_dict calls made on one PollReader.
MaxCalls == 2
\* A long file is the header, LongHead copies of one data line, then LongTail
\* copies of another.
LongHead == 20
LongTail == 42

(***************************************************************************)
(* Characters and strings.                                                 *)
(***************************************************************************)
Char(s, i) == SubSeq(s, i, i)

DigitChars == "0123456789"
LowerChars == "abcdefghijklmnopqrstuvwxyz"
UpperChars == "ABCDEFGHIJKLMNOPQRSTUVWXYZ"

DigitSet == {Char(DigitChars, i) : i \in 1..10}
LowerSet == {Char(LowerChars, i) : i \in 1..26}
UpperSet == {Char(UpperChars, i) : i \in 1..26}
\* str.strip() with no argument removes leading and trailing whitespace.
Whitespace == {" ", "\n", "\t", "\r"}

SetMin(S) == CHOOSE x \in S : \A y \in S : x <= y
SetMax(S) == CHOOSE x \in S : \A y \in S : y <= x

\* ch.isdigit()
IsDigit(c) == c \in DigitSet
\* ch.isalpha()
IsAlpha(c) == c \in LowerSet \/ c \in UpperSet
DigitVal(c) == CHOOSE d \in 0..9 : Char(DigitChars, d + 1) = c

CharUpper(c) ==
    IF c \in LowerSet
    THEN Char(UpperChars, CHOOSE i \in 1..26 : Char(LowerChars, i) = c)
    ELSE c
CharLower(c) ==
    IF c \in UpperSet
    THEN Char(LowerChars, CHOOSE i \in 1..26 : Char(UpperChars, i) = c)
    ELSE c

RECURSIVE UpperFrom(_, _)
UpperFrom(s, i) ==
    IF i > Len(s) THEN "" ELSE CharUpper(Char(s, i)) \o UpperFrom(s, i + 1)
\* str.upper()
Upper(s) == UpperFrom(s, 1)

RECURSIVE LowerFrom(_, _)
LowerFrom(s, i) ==
    IF i > Len(s) THEN "" ELSE CharLower(Char(s, i)) \o LowerFrom(s, i + 1)
\* str.lower()
Lower(s) == LowerFrom(s, 1)

\* str.strip()
Strip(s) ==
    LET keep == {i \in 1..Len(s) : Char(s, i) \notin Whitespace}
    IN  IF keep = {} THEN "" ELSE SubSeq(s, SetMin(keep), SetMax(keep))

\* sub in s
Contains(s, sub) ==
    \E i \in 1..(Len(s) - Len(sub) + 1) : SubSeq(s, i, i + Len(sub) - 1) = sub

RECURSIVE SplitFrom(_, _)
SplitFrom(s, start) ==
    LET commas == {i \in start..Len(s) : Char(s, i) = ","}
    IN  IF commas = {}
        THEN <<SubSeq(s, start, Len(s))>>
        ELSE LET c == SetMin(commas)
             IN  <<SubSeq(s, start, c - 1)>> \o SplitFrom(s, c + 1)
\* line.split(',')
Split(s) == SplitFrom(s, 1)

\* [p.strip() for p in line.split(',')]
Parts(line) == LET raw == Split(line) IN [i \in 1..Len(raw) |-> Strip(raw[i])]

RECURSIVE FilterFrom(_, _, _)
FilterFrom(s, i, keepDigits) ==
    IF i > Len(s) THEN ""
    ELSE LET c == Char(s, i)
         IN  (IF (keepDigits /\ IsDigit(c)) \/ (~keepDigits /\ IsAlpha(c))
              THEN c ELSE "") \o FilterFrom(s, i + 1, keepDigits)

AllDigits(s) == Len(s) > 0 /\ \A i \in 1..Len(s) : IsDigit(Char(s, i))

RECURSIVE DigitsValue(_, _)
\* The value of the first n characters of a digit string.
DigitsValue(s, n) ==
    IF n = 0 THEN 0 ELSE 10 * DigitsValue(s, n - 1) + DigitVal(Char(s, n))

(***************************************************************************)
(* Numbers.  A float is [hi, lo]: hi * 10^-4 + lo * 10^-13, 0 <= lo < 10^9.*)
(***************************************************************************)
LoBase == 10^9

Dec(h, l) == [hi |-> h, lo |-> l]
DecZero == Dec(0, 0)
\* 1.0
DecOne == Dec(10^4, 0)

DecLess(a, b) == a.hi < b.hi \/ (a.hi = b.hi /\ a.lo < b.lo)
DecLeq(a, b) == a = b \/ DecLess(a, b)
DecNeg(a) == IF a.lo = 0 THEN Dec(-a.hi, 0) ELSE Dec(-a.hi - 1, LoBase - a.lo)
DecAdd(a, b) ==
    LET l == a.lo + b.lo
    IN  IF l >= LoBase THEN Dec(a.hi + b.hi + 1, l - LoBase) ELSE Dec(a.hi + b.hi, l)
DecSub(a, b) == DecAdd(a, DecNeg(b))
\* abs(x)
DecAbs(a) == IF DecLess(a, DecZero) THEN DecNeg(a) ELSE a
\* x / 100.0
DecDiv100(a) == Dec(a.hi \div 100, ((a.hi % 100) * 10^7) + (a.lo \div 100))
\* x * 100
DecMul100(a) == Dec((a.hi * 100) + (a.lo \div 10^7), (a.lo % 10^7) * 100)
\* x * k for a small natural k, limb by limb.
DecScale(a, k) ==
    LET t0 == (a.lo % 10^5) * k
        t1 == ((a.lo \div 10^5) * k) + (t0 \div 10^5)
    IN  Dec((a.hi * k) + (t1 \div 10^4), ((t1 % 10^4) * 10^5) + (t0 % 10^5))

\* An exact quotient num / den, den >= 1: the value of sum(xs) / len(xs).
Frac(n, d) == [num |-> n, den |-> d]
\* 0.0
FracZero == Frac(DecZero, 1)
\* a - b, over the common denominator when the two already share one.
FracSub(a, b) ==
    IF a.den = b.den THEN Frac(DecSub(a.num, b.num), a.den)
    ELSE Frac(DecSub(DecScale(a.num, b.den), DecScale(b.num, a.den)), a.den * b.den)
FracEq(a, b) == DecScale(a.num, b.den) = DecScale(b.num, a.den)

RECURSIVE DecSum(_, _, _)
\* sum(xs[lo..hi]), for lo <= hi; exact addition is associative, so the
\* range is halved to keep the recursion shallow.
DecSum(xs, lo, hi) ==
    IF lo = hi THEN xs[lo]
    ELSE DecAdd(DecSum(xs, lo, (lo + hi) \div 2), DecSum(xs, (lo + hi) \div 2 + 1, hi))

\* sum(xs) / len(xs), for a non-empty xs
Mean(xs) == Frac(DecSum(xs, 1, Len(xs)), Len(xs))

DecMax2(a, b) == IF DecLess(a, b) THEN b ELSE a
RECURSIVE DecMaxOf(_, _, _)
DecMaxOf(xs, lo, hi) ==
    IF lo = hi THEN xs[lo]
    ELSE DecMax2(DecMaxOf(xs, lo, (lo + hi) \div 2), DecMaxOf(xs, (lo + hi) \div 2 + 1, hi))
\* max(xs), for a non-empty xs
DecMax(xs) == DecMaxOf(xs, 1, Len(xs))

(***************************************************************************)
(* int() and float() of a string; ok is FALSE where Python raises          *)
(* ValueError.  Modelled: an optional sign and decimal digits, for float   *)
(* with at most one point; digits after the 13th decimal are dropped.      *)
(***************************************************************************)
Signed(t) == Len(t) > 0 /\ Char(t, 1) \in {"+", "-"}
Unsigned(t) == IF Signed(t) THEN SubSeq(t, 2, Len(t)) ELSE t

\* int(s)
ParseInt(s) ==
    LET t == Strip(s)
        body == Unsigned(t)
    IN  IF AllDigits(body)
        THEN [ok |-> TRUE,
              val |-> IF Char(t, 1) = "-" THEN -DigitsValue(body, Len(body))
                      ELSE DigitsValue(body, Len(body))]
        ELSE [ok |-> FALSE, val |-> 0]

\* float(s)
ParseFloat(s) ==
    LET t == Strip(s)
        body == Unsigned(t)
        dots == {i \in 1..Len(body) : Char(body, i) = "."}
        ip == IF dots = {} THEN body ELSE SubSeq(body, 1, SetMin(dots) - 1)
        fp == IF dots = {} THEN "" ELSE SubSeq(body, SetMin(dots) + 1, Len(body))
        wellFormed == /\ Cardinality(dots) <= 1
                      /\ ip = "" \/ AllDigits(ip)
                      /\ fp = "" \/ AllDigits(fp)
                      /\ Len(ip) + Len(fp) > 0
        padded == fp \o "0000000000000"
        mag == Dec(DigitsValue(ip, Len(ip)) * 10^4 + DigitsValue(padded, 4),
                   DigitsValue(SubSeq(padded, 5, 13), 9))
    IN  IF wellFormed
        THEN [ok |-> TRUE, val |-> IF Char(t, 1) = "-" THEN DecNeg(mag) ELSE mag]
        ELSE [ok |-> FALSE, val |-> DecZero]

\* PollReader._parse_sample_field
ParseSampleField(cell) ==
    LET s == Strip(cell)
        num_str == FilterFrom(s, 1, TRUE)
        type_str == Upper(FilterFrom(s, 1, FALSE))
    IN  IF num_str = ""
        THEN [ok |-> FALSE, num |-> 0, type |-> ""]
        ELSE [ok |-> TRUE, num |-> DigitsValue(num_str, Len(num_str)), type |-> type_str]

\* _as_decimal with the comparison x >= 1.0.
AsDecimalInclusive(x) == IF DecLeq(DecOne, x) THEN DecDiv100(x) ELSE x

\* PollReader._as_decimal
AsDecimal(x) == IF DecLess(DecOne, x) THEN DecDiv100(x) ELSE x

(***************************************************************************)
(* The input files.  A line is a string as readlines() returns it.         *)
(***************************************************************************)
BlankLine == "\n"
HeaderLine == "month,date,sample,Harris result,Trump result\n"
\* Rows that parse.  The 5-field layout, results as percentages, type LV:
PercentLine == "Sep,1,1880 LV,57.26,40\n"
\* the 6-field layout, results as decimal fractions, a lower-case type, and
\* a Trump result 1e-13 above PercentLine's Harris result as a fraction:
DecimalLine == "Aug,30,900,lv,0.4,0.5726000000001\n"
\* blanks around the fields, type RV, a Harris result of exactly 1:
PaddedLine == " Aug , 2 , 50 RV , 1 , 0.5 \n"
\* results outside 0..100:
OutOfRangeLine == "Jul,4,7 RV,150,-3\n"
DataLines == {PercentLine, DecimalLine, PaddedLine, OutOfRangeLine}
\* Rows that do not: a non-numeric date, a non-numeric Trump result, and a
\* row of three fields.
BadLines ==
    { "Sep,x,10 LV,57,40\n",
      "Sep,1,10 LV,57,x\n",
      "a,b,c\n" }
LineSet == {BlankLine, HeaderLine} \cup DataLines \cup BadLines

Repeat(line, n) == [i \in 1..n |-> line]

ShortFiles == UNION {[1..n -> LineSet] : n \in 0..MaxLines}
LongPairs == {<<PercentLine, DecimalLine>>, <<DecimalLine, PaddedLine>>,
              <<OutOfRangeLine, PercentLine>>}
LongFiles ==
    {<<HeaderLine>> \o Repeat(p[1], LongHead) \o Repeat(p[2], LongTail) : p \in LongPairs}
Files == ShortFiles \cup LongFiles

(***************************************************************************)
(* PollReader.                                                             *)
(***************************************************************************)
Columns == {"month", "date", "sample", "sample type", "Harris result", "Trump result"}
Queries == {"highest_polling_candidate", "likely_voter_polling_average",
            "polling_history_change"}

\* The data_dict that __init__ sets up.
EmptyDict == [c \in Columns |-> <<>>]

NoExc == [type |-> "none", msg |-> "", idx |-> -1]
\* raise ValueError(msg), from the iteration of enumerate index idx.
ValueError(m, i) == [type |-> "ValueError", msg |-> m, idx |-> i]
\* The loop's state while nothing has been raised.
Running(dd) == [dd |-> dd, exc |-> NoExc]

\* repr of a str without quotes or escapes in it.
ReprStr(s) == "'" \o s \o "'"
RECURSIVE ReprFrom(_, _)
ReprFrom(parts, i) ==
    IF i > Len(parts) THEN ""
    ELSE (IF i > 1 THEN ", " ELSE "") \o ReprStr(parts[i]) \o ReprFrom(parts, i + 1)
\* repr of a list of str.
ReprList(parts) == "[" \o ReprFrom(parts, 1) \o "]"

\* The header test without idx == 0.
IsHeaderRowAnywhere(idx, line) == Contains(Lower(line), "month")

\* The header test of build_data_dict.
IsHeaderRow(idx, line) == idx = 0 /\ Contains(Lower(line), "month")

\* The message with the enumerate index itself as the line number.
FormatErrorZeroBased(idx, parts) ==
    "Unexpected CSV format on line " \o ToString(idx) \o ": " \o ReprList(parts)

\* f"Unexpected CSV format on line {idx+1}: {parts}"
FormatError(idx, parts) ==
    "Unexpected CSV format on line " \o ToString(idx + 1) \o ": " \o ReprList(parts)

\* The six appends of build_data_dict, in their order; a conversion that
\* raises leaves the appends made before it.
AppendRow(dd, idx, month_str, date_str, sample_num, sample_type_str, harris_str, trump_str) ==
    LET date == ParseInt(date_str)
        harris == ParseFloat(harris_str)
        trump == ParseFloat(trump_str)
        d1 == [dd EXCEPT !["month"] = Append(@, month_str)]
        d2 == [d1 EXCEPT !["date"] = Append(@, date.val)]
        d3 == [d2 EXCEPT !["sample"] = Append(@, sample_num)]
        d4 == [d3 EXCEPT !["sample type"] = Append(@, sample_type_str)]
        d5 == [d4 EXCEPT !["Harris result"] = Append(@, harris.val)]
        d6 == [d5 EXCEPT !["Trump result"] = Append(@, trump.val)]
    IN  IF ~date.ok
        THEN [dd |-> d1,
              exc |-> ValueError("invalid literal for int() with base 10: "
                                 \o ReprStr(date_str), idx)]
        ELSE IF ~harris.ok
        THEN [dd |-> d4,
              exc |-> ValueError("could not convert string to float: "
                                 \o ReprStr(harris_str), idx)]
        ELSE IF ~trump.ok
        THEN [dd |-> d5,
              exc |-> ValueError("could not convert string to float: "
                                 \o ReprStr(trump_str), idx)]
        ELSE [dd |-> d6, exc |-> NoExc]

\* One iteration of the loop of build_data_dict.
ProcessLine(dd, idx, rawline) ==
    LET line == Strip(rawline)
        parts == Parts(line)
    IN  IF line = "" THEN Running(dd)
        ELSE IF IsHeaderRow(idx, line) THEN Running(dd)
        ELSE IF Len(parts) = 5
        THEN LET sf == ParseSampleField(parts[3])
             IN  IF ~sf.ok
                 THEN [dd |-> dd,
                       exc |-> ValueError("Could not parse sample field: "
                                          \o ReprStr(parts[3]), idx)]
                 ELSE AppendRow(dd, idx, parts[1], parts[2], sf.num, sf.type,
                                parts[4], parts[5])
        ELSE IF Len(parts) = 6
        THEN LET sample == ParseInt(parts[3])
             IN  IF ~sample.ok
                 THEN [dd |-> dd,
                       exc |-> ValueError("invalid literal for int() with base 10: "
                                          \o ReprStr(parts[3]), idx)]
                 ELSE AppendRow(dd, idx, parts[1], parts[2], sample.val,
                                Upper(Strip(parts[4])), parts[5], parts[6])
        ELSE [dd |-> dd, exc |-> ValueError(FormatError(idx, parts), idx)]

RECURSIVE BuildFrom(_, _, _)
\* The loop of build_data_dict from enumerate index idx on; res holds the
\* columns so far and the exception raised, if any.
BuildFrom(raw, res, idx) ==
    IF idx >= Len(raw) \/ res.exc.type # "none" THEN res
    ELSE BuildFrom(raw, ProcessLine(res.dd, idx, raw[idx + 1]), idx + 1)

\* build_data_dict starting from cleared columns.
BuildStartCleared(dd) == EmptyDict

\* The columns a build_data_dict call starts from.
BuildStart(dd) == dd

\* format(x, ".1f"): x rounded to tenths, ties to even.
Format1(x) ==
    LET m == DecScale(DecAbs(x), 10)
        whole == m.hi \div 10^4
        rest == Dec(m.hi % 10^4, m.lo)
        half == Dec(5000, 0)
        tenths == IF DecLess(half, rest) \/ (rest = half /\ whole % 2 = 1)
                  THEN whole + 1 ELSE whole
    IN  (IF DecLess(x, DecZero) THEN "-" ELSE "")
        \o ToString(tenths \div 10) \o "." \o ToString(tenths % 10)

\* [self._as_decimal(x) for x in xs]
Decimals(xs) == [i \in 1..Len(xs) |-> AsDecimal(xs[i])]

\* The tie test as h_max == t_max.
ExactlyEqual(h_max, t_max) == h_max = t_max

\* abs(h_max - t_max) < 1e-12
WithinTolerance(h_max, t_max) == DecLess(DecAbs(DecSub(h_max, t_max)), Dec(0, 10))

\* PollReader.highest_polling_candidate
HighestPollingCandidateOf(dd) ==
    LET h_vals == Decimals(dd["Harris result"])
        t_vals == Decimals(dd["Trump result"])
    IN  IF h_vals = <<>> \/ t_vals = <<>> THEN "EVEN at 0.0%"
        ELSE LET h_max == DecMax(h_vals)
                 t_max == DecMax(t_vals)
             IN  IF WithinTolerance(h_max, t_max)
                 THEN "EVEN at " \o Format1(DecMul100(h_max)) \o "%"
                 ELSE IF DecLess(t_max, h_max)
                 THEN "Harris " \o Format1(DecMul100(h_max)) \o "%"
                 ELSE "Trump " \o Format1(DecMul100(t_max)) \o "%"

\* st.strip().upper() == 'LV'
IsLikelyVoter(st) == Upper(Strip(st)) = "LV"

\* sum(xs) / len(xs) if xs else 0.0
MeanOrZero(xs) == IF xs # <<>> THEN Mean(xs) ELSE FracZero

\* likely_voter_polling_average dividing the LV sums by the number of all rows.
LikelyVoterPollingAverageOverAll(dd) ==
    LET st == dd["sample type"]
        h == dd["Harris result"]
        t == dd["Trump result"]
        n == SetMin({Len(st), Len(h), Len(t)})
        rows == SelectSeq([i \in 1..n |-> i], LAMBDA i : IsLikelyVoter(st[i]))
        h_lv == [j \in 1..Len(rows) |-> AsDecimal(h[rows[j]])]
        t_lv == [j \in 1..Len(rows) |-> AsDecimal(t[rows[j]])]
    IN  IF rows = <<>> THEN <<FracZero, FracZero>>
        ELSE <<Frac(DecSum(h_lv, 1, Len(rows)), n), Frac(DecSum(t_lv, 1, Len(rows)), n)>>

\* PollReader.likely_voter_polling_average
LikelyVoterPollingAverageOf(dd) ==
    LET st == dd["sample type"]
        h == dd["Harris result"]
        t == dd["Trump result"]
        \* zip() stops at the shortest of its arguments.
        n == SetMin({Len(st), Len(h), Len(t)})
        rows == SelectSeq([i \in 1..n |-> i], LAMBDA i : IsLikelyVoter(st[i]))
        h_lv == [j \in 1..Len(rows) |-> AsDecimal(h[rows[j]])]
        t_lv == [j \in 1..Len(rows) |-> AsDecimal(t[rows[j]])]
    IN  <<MeanOrZero(h_lv), MeanOrZero(t_lv)>>

\* The window size without the cap of 30.
WindowSizeHalf(n) == n \div 2

\* k = 30 if n >= 60 else max(0, n // 2)
WindowSize(n) == IF n >= 60 THEN 30 ELSE IF n \div 2 > 0 THEN n \div 2 ELSE 0

\* avg_at(range(lo, hi), series), with the 0-based indices of the code.
AvgAt(lo, hi, series) == Mean([j \in 1..(hi - lo) |-> series[lo + j]])

\* PollReader.polling_history_change
PollingHistoryChangeOf(dd) ==
    LET n == Len(dd["Harris result"])
        h_vals == Decimals(dd["Harris result"])
        t_vals == Decimals(dd["Trump result"])
        k == WindowSize(n)
    IN  IF n = 0 THEN <<FracZero, FracZero>>
        ELSE IF k = 0 THEN <<FracZero, FracZero>>
        ELSE LET h_ear == AvgAt(n - k, n, h_vals)
                 t_ear == AvgAt(n - k, n, t_vals)
                 h_lat == AvgAt(0, k, h_vals)
                 t_lat == AvgAt(0, k, t_vals)
             IN  <<FracSub(h_lat, h_ear), FracSub(t_lat, t_ear)>>

(***************************************************************************)
(* The state machine.  raw_data and data_dict are the fields of one        *)
(* PollReader.  status is "raised" once build_data_dict has raised: the    *)
(* exception leaves the caller (setUp, main), which makes no further call. *)
(* calls counts the build_data_dict calls that returned.  first and last   *)
(* record, per query, the value returned by its first and by its latest    *)
(* call since the last build_data_dict call.                               *)
(***************************************************************************)
NotCalled == [called |-> FALSE, val |-> <<>>]
Returned(v) == [called |-> TRUE, val |-> <<v>>]
NoReturns == [q \in Queries |-> NotCalled]

Init ==
    /\ raw_data \in Files
    /\ data_dict = EmptyDict
    /\ status = "ok"
    /\ exc = NoExc
    /\ calls = 0
    /\ first = NoReturns
    /\ last = NoReturns

\* PollReader.build_data_dict
BuildDataDict ==
    /\ status = "ok"
    /\ calls < MaxCalls
    /\ LET r == BuildFrom(raw_data, Running(BuildStart(data_dict)), 0)
       IN  /\ data_dict' = r.dd
           /\ exc' = r.exc
           /\ status' = IF r.exc.type = "none" THEN "ok" ELSE "raised"
           /\ calls' = IF r.exc.type = "none" THEN calls + 1 ELSE calls
    /\ first' = NoReturns
    /\ last' = NoReturns
    /\ UNCHANGED raw_data

\* A query returns v.
Return(q, v) ==
    /\ first' = IF first[q].called THEN first ELSE [first EXCEPT ![q] = Returned(v)]
    /\ last' = [last EXCEPT ![q] = Returned(v)]

\* PollReader.highest_polling_candidate
HighestPollingCandidate ==
    /\ status = "ok"
    /\ Return("highest_polling_candidate", HighestPollingCandidateOf(data_dict))
    /\ UNCHANGED <<raw_data, data_dict, status, exc, calls>>

\* PollReader.likely_voter_polling_average
LikelyVoterPollingAverage ==
    /\ status = "ok"
    /\ Return("likely_voter_polling_average", LikelyVoterPollingAverageOf(data_dict))
    /\ UNCHANGED <<raw_data, data_dict, status, exc, calls>>

\* polling_history_change putting the rows in chronological order in place.
PollingHistoryChangeSorting ==
    /\ status = "ok"
    /\ Return("polling_history_change", PollingHistoryChangeOf(data_dict))
    /\ data_dict' = [c \in Columns |->
                        [i \in 1..Len(data_dict[c]) |->
                            data_dict[c][Len(data_dict[c]) + 1 - i]]]
    /\ UNCHANGED <<raw_data, status, exc, calls>>

\* PollReader.polling_history_change
PollingHistoryChange ==
    /\ status = "ok"
    /\ Return("polling_history_change", PollingHistoryChangeOf(data_dict))
    /\ UNCHANGED <<raw_data, data_dict, status, exc, calls>>

Next ==
    \/ BuildDataDict
    \/ HighestPollingCandidate
    \/ LikelyVoterPollingAverage
    \/ PollingHistoryChange

Spec == Init /\ [][Next]_vars

(***************************************************************************)
(* What the claims speak of, stated apart from the operators above.        *)
(***************************************************************************)
IsBlank(l) == \A i \in 1..Len(l) : Char(l, i) \in Whitespace
HasMonth(l) == Contains(Lower(l), "month")
Indices(raw) == [i \in 1..Len(raw) |-> i]

\* The 1-based numbers of the lines that hold a row, in file order: the
\* non-blank lines other than a line 1 that contains "month".
DataRowLines(raw) ==
    SelectSeq(Indices(raw), LAMBDA i : ~IsBlank(raw[i]) /\ ~(i = 1 /\ HasMonth(raw[i])))

\* The six values of the row on a line that parses, by column.
RowOfLine(l) == LET d == ProcessLine(EmptyDict, 1, l).dd IN [c \in Columns |-> d[c][1]]

\* Row i of the table, by column.
TableRow(i) == [c \in Columns |-> data_dict[c][i]]

SameLengths == \A c \in Columns : Len(data_dict[c]) = Len(data_dict["month"])
NumRows == Len(data_dict["month"])

\* The table is the rows of the file, in file order, m times over.
TableIsFileTimes(m) ==
    LET lines == DataRowLines(raw_data)
        n == Len(lines)
    IN  /\ \A c \in Columns : Len(data_dict[c]) = m * n
        /\ \A i \in 1..n :
              LET row == RowOfLine(raw_data[lines[i]])
              IN  \A j \in 0..(m - 1) : TableRow(j * n + i) = row

\* build_data_dict has returned normally at least once.
Built == status = "ok" /\ calls >= 1

\* C1 as amended: when the first build_data_dict call on a PollReader returns
\* normally, the six columns have the same length, the number of non-blank,
\* non-header lines, and entry i of every column comes from the i-th such line.
C1_FirstBuildFillsColumns == (status = "ok" /\ calls = 1) => TableIsFileTimes(1)

\* C1 as stated: the same whenever build_data_dict returns normally.
C1_EveryBuildFillsColumns == Built => TableIsFileTimes(1)

C1_Witness ==
    /\ status = "ok" /\ calls = 1
    /\ NumRows >= 2
    /\ Len(raw_data) > NumRows

\* The number of rows on the lines before line number k (1-based).
RowsBefore(k) == Cardinality({i \in 1..Len(DataRowLines(raw_data)) : DataRowLines(raw_data)[i] < k})

\* C2: when build_data_dict raises, the six columns have equal length and
\* hold the rows of the lines before the failing one and nothing else.
C2_NoPartialRow ==
    status = "raised" =>
        \A c \in Columns : Len(data_dict[c]) = RowsBefore(exc.idx + 1)

\* x is a fraction in [0, 1].
InUnit(x) == DecLeq(DecZero, x) /\ DecLeq(x, DecOne)
\* The normalisation the claims speak of: a value above 1 is a percentage.
Normalised(x) == IF DecLess(DecOne, x) THEN DecDiv100(x) ELSE x

\* The greatest normalised value of a column.
ColumnMax(col) ==
    LET xs == data_dict[col]
        i == CHOOSE i \in 1..Len(xs) :
                 \A j \in 1..Len(xs) : DecLeq(Normalised(xs[j]), Normalised(xs[i]))
    IN  Normalised(xs[i])

Percent1(x) == Format1(DecMul100(x)) \o "%"

HighestExpected ==
    IF NumRows = 0 THEN "EVEN at 0.0%"
    ELSE LET hmax == ColumnMax("Harris result")
             tmax == ColumnMax("Trump result")
         IN  IF DecLess(DecAbs(DecSub(hmax, tmax)), Dec(0, 10))
             THEN "EVEN at " \o Percent1(hmax)
             ELSE IF DecLess(tmax, hmax) THEN "Harris " \o Percent1(hmax)
             ELSE "Trump " \o Percent1(tmax)

\* C3: highest_polling_candidate returns "EVEN at 0.0%" on zero rows, "EVEN
\* at P%" when the two maxima are within 1e-12, and otherwise the name of the
\* candidate with the greater maximum and that maximum as P%.
C3_HighestPollingCandidate ==
    last["highest_polling_candidate"].called =>
        last["highest_polling_candidate"].val[1] = HighestExpected

\* The maxima differ, by less than the tolerance.
C3_Witness ==
    /\ last["highest_polling_candidate"].called
    /\ NumRows >= 2
    /\ ColumnMax("Harris result") # ColumnMax("Trump result")
    /\ last["highest_polling_candidate"].val[1] = "EVEN at 57.3%"

RECURSIVE SumWhere(_, _, _, _)
\* The sum of the normalised xs[i] over the i in lo..hi that are in rows.
SumWhere(xs, rows, lo, hi) ==
    IF lo > hi THEN DecZero
    ELSE IF lo = hi THEN (IF lo \in rows THEN Normalised(xs[lo]) ELSE DecZero)
    ELSE DecAdd(SumWhere(xs, rows, lo, (lo + hi) \div 2),
                SumWhere(xs, rows, (lo + hi) \div 2 + 1, hi))

\* The mean of the normalised values of a column over a set of rows.
MeanOver(col, rows) ==
    Frac(SumWhere(data_dict[col], rows, 1, NumRows), Cardinality(rows))

LikelyVoterRows ==
    {i \in 1..NumRows : Upper(Strip(data_dict["sample type"][i])) = "LV"}

\* C4: likely_voter_polling_average returns the means of the normalised
\* Harris and Trump results over the rows of type LV, and (0.0, 0.0) when
\* there is no such row, the table built or not.
C4_LikelyVoterAverage ==
    last["likely_voter_polling_average"].called =>
        LET r == last["likely_voter_polling_average"].val[1]
        IN  IF LikelyVoterRows = {} THEN r = <<FracZero, FracZero>>
            ELSE /\ r[1].den >= 1 /\ r[2].den >= 1
                 /\ FracEq(r[1], MeanOver("Harris result", LikelyVoterRows))
                 /\ FracEq(r[2], MeanOver("Trump result", LikelyVoterRows))

C4_Witness ==
    /\ last["likely_voter_polling_average"].called
    /\ LikelyVoterRows # {}
    /\ Cardinality(LikelyVoterRows) < NumRows
    /\ last["likely_voter_polling_average"].val[1][1].num # DecZero

\* The window size the claim gives for n rows.
ClaimedWindow(n) == IF n >= 60 THEN 30 ELSE n \div 2

\* Mean of the first k rows minus mean of the last k rows.
ChangeExpected(col, k) ==
    FracSub(MeanOver(col, 1..k), MeanOver(col, (NumRows - k + 1)..NumRows))

\* C5: polling_history_change uses k = 30 for n >= 60 rows and floor(n/2)
\* otherwise, returns (0.0, 0.0) when k = 0, and otherwise the mean of the
\* first k rows minus the mean of the last k rows for each candidate, the
\* two windows being disjoint.
C5_PollingHistoryChange ==
    last["polling_history_change"].called =>
        LET r == last["polling_history_change"].val[1]
            k == ClaimedWindow(NumRows)
        IN  /\ WindowSize(NumRows) = k
            /\ (1..k) \cap ((NumRows - k + 1)..NumRows) = {}
            /\ IF k = 0 THEN r = <<FracZero, FracZero>>
               ELSE /\ FracEq(r[1], ChangeExpected("Harris result", k))
                    /\ FracEq(r[2], ChangeExpected("Trump result", k))

\* More than 60 rows, and a change that is not zero.
C5_Witness ==
    /\ last["polling_history_change"].called
    /\ NumRows > 60
    /\ last["polling_history_change"].val[1][1].num # DecZero

\* The header row as the claim has it: the first line that contains "month".
IsHeaderLine(i) == HasMonth(raw_data[i]) /\ \A j \in 1..(i - 1) : ~HasMonth(raw_data[j])

\* C6: the header row, the first line containing "month", and every blank
\* line are skipped wherever they stand: none makes build_data_dict raise and
\* none contributes an entry.
C6_HeaderAndBlankSkipped ==
    /\ status = "raised" =>
          /\ ~IsBlank(raw_data[exc.idx + 1])
          /\ ~IsHeaderLine(exc.idx + 1)
    /\ Built =>
          NumRows = calls * Cardinality({i \in 1..Len(raw_data) :
                                            ~IsBlank(raw_data[i]) /\ ~IsHeaderLine(i)})

\* The lines, by number, that are not blank, not the header, and split into
\* neither 5 nor 6 fields.
BadCountLines ==
    {i \in 1..Len(raw_data) :
        /\ ~IsBlank(raw_data[i])
        /\ ~IsHeaderLine(i)
        /\ Len(Split(raw_data[i])) \notin {5, 6}}

Attempted == status = "raised" \/ calls >= 1

\* The error names line number k and the content of that line.
NamesLine(k) ==
    /\ Contains(exc.msg, "line " \o ToString(k) \o ":")
    /\ \A j \in 1..Len(Parts(Strip(raw_data[k]))) :
          Contains(exc.msg, Parts(Strip(raw_data[k]))[j])

\* C7 as stated: with such a line in the file, build_data_dict fails at the
\* first of them, and the error names its line number and content.
C7_FailsAtFirstBadCount ==
    (Attempted /\ BadCountLines # {}) =>
        /\ status = "raised"
        /\ exc.idx + 1 = SetMin(BadCountLines)
        /\ NamesLine(SetMin(BadCountLines))

\* C7 as amended: build_data_dict fails no later than the first such line,
\* and when no earlier line fails to parse it fails at that line with an
\* error that names its line number and content.
C7_FailsByFirstBadCount ==
    (Attempted /\ BadCountLines # {}) =>
        /\ status = "raised"
        /\ exc.idx + 1 <= SetMin(BadCountLines)
        /\ exc.idx + 1 = SetMin(BadCountLines) => NamesLine(SetMin(BadCountLines))

C7_Witness ==
    /\ status = "raised"
    /\ BadCountLines # {}
    /\ exc.idx + 1 = SetMin(BadCountLines)
    /\ exc.idx + 1 >= 2
    /\ NumRows >= 1

\* C8: a query call leaves data_dict and raw_data as they were and returns
\* what the first call of that query returned since the table was parsed.
C8_QueriesArePure ==
    [][(status = "ok" /\ status' = "ok" /\ calls' = calls) =>
          /\ data_dict' = data_dict
          /\ raw_data' = raw_data
          /\ \A q \in Queries :
                /\ first[q].called => first'[q] = first[q]
                /\ last'[q].called => last'[q] = first'[q]]_vars

\* Every query has been called on a table of several rows.
C8_Witness ==
    /\ calls >= 1
    /\ NumRows >= 2
    /\ \A q \in Queries : first[q].called /\ last[q] = first[q]

\* The values build_data_dict has stored as results.
StoredResults ==
    {data_dict[c][i] : c \in {"Harris result", "Trump result"}, i \in 1..NumRows}
DecHundred == Dec(100 * 10^4, 0)

\* C9 as stated: every stored result is normalised into [0, 1], a value in
\* [0, 1] unchanged and a value above 1 divided by 100.
C9_NormalisedIntoUnit ==
    status = "ok" =>
        \A x \in StoredResults :
            /\ InUnit(AsDecimal(x))
            /\ InUnit(x) => AsDecimal(x) = x
            /\ DecLess(DecOne, x) => DecMul100(AsDecimal(x)) = x

\* C9 as amended: a stored result in [0, 100] is normalised into [0, 1]; any
\* stored result of at most 1 is returned unchanged and any above 1 is
\* divided by 100.
C9_NormalisedRule ==
    status = "ok" =>
        \A x \in StoredResults :
            /\ (DecLeq(DecZero, x) /\ DecLeq(x, DecHundred)) => InUnit(AsDecimal(x))
            /\ DecLeq(x, DecOne) => AsDecimal(x) = x
            /\ DecLess(DecOne, x) => DecMul100(AsDecimal(x)) = x

\* A percentage, a fraction and a result of exactly 1 are stored.
C9_Witness ==
    /\ status = "ok"
    /\ \E x \in StoredResults : DecLess(DecOne, x) /\ DecLeq(x, DecHundred)
    /\ \E x \in StoredResults : DecLess(DecZero, x) /\ DecLess(x, DecOne)
    /\ DecOne \in StoredResults

\* C10: build_data_dict appends to the columns as they are: after m calls
\* that returned, the table is the rows of the file m times over.
C10_BuildAppendsAgain == status = "ok" => TableIsFileTimes(calls)

C10_Witness ==
    /\ status = "ok"
    /\ calls >= 2
    /\ NumRows >= 2 * 2

====
